---------------------------- MODULE Spec2Model ----------------------------
(***************************************************************************)
(* Model of job_radar.py: the filtering, scoring, deduplication and        *)
(* flood-control pipeline of main(), the persisted seen-store, and the     *)
(* pure functions norm, location_priority and score_job.                   *)
(*                                                                         *)
(* Text is modelled by TLA+ strings; substring tests, the state-code       *)
(* regular expression and lower-casing are computed character by           *)
(* character.  Time is counted in whole hours.                             *)
(***************************************************************************)
EXTENDS Integers, Sequences, FiniteSets, TLC

VARIABLES
    file,            \* content of STATE_PATH on disk
    seen,            \* main(): the value returned by load_seen()
    all_jobs,        \* main(): postings fetched in this run
    items,           \* main(): (score, job) pairs, filtered then sorted
    picked,          \* main(): pairs accepted by the company quota filter
    company_counts,  \* main(): per-company running count
    dropped,         \* entries cut off by the size-based pruning of this run
    now,             \* wall clock at the start of the run, in hours
    run,             \* number of runs of main() started so far
    pc,              \* position of the current run inside main()
    notified,        \* history: fingerprints selected by a run that saved
    first,           \* history: what the first run fetched, ranked, selected
    fn_in,           \* argument of a direct call of a pure function
    fn_out           \* its result

vars == <<file, seen, all_jobs, items, picked, company_counts, dropped,
          now, run, pc, notified, first, fn_in, fn_out>>

-----------------------------------------------------------------------------
(* CONFIG *)

LOOKBACK_HOURS == 6

\* MAX_EMAIL_ITEMS is 120 and the pruning threshold 25000 in the source; the
\* model scales both down, keeping MAX_EMAIL_ITEMS < SEEN_MAX.
MAX_EMAIL_ITEMS == 3
SEEN_MAX == 4

MAX_PER_COMPANY_DEFAULT == 6

COMPANY_CAPS ==
    [Amazon |-> 4, Google |-> 5, Microsoft |-> 3, Meta |-> 4, Apple |-> 3,
     Nvidia |-> 2]

US_KEYWORDS ==
    <<"united states", "united states of america", "u.s.", "u.s.a", "usa",
      "remote - us", "remote (us)", "remote, us", "us remote", "us-only",
      "us only">>

CALIFORNIA_KEYWORDS ==
    <<"california", "ca", "san francisco", "sf", "bay area",
      "los angeles", "la", "santa clara", "palo alto",
      "mountain view", "sunnyvale", "san jose", "redwood city",
      "san mateo", "menlo park", "cupertino", "irvine", "san diego">>

US_STATE_ABBR ==
    {"al","ak","az","ar","ca","co","ct","de","fl","ga","hi","id","il","in",
     "ia","ks","ky","la","me","md","ma","mi","mn","ms","mo","mt","ne","nv",
     "nh","nj","nm","ny","nc","nd","oh","ok","or","pa","ri","sc","sd","tn",
     "tx","ut","vt","va","wa","wv","wi","wy","dc"}

TARGET_COMPANY_NAMES ==
    <<"Adobe","Affirm","Airbnb","Amazon","Anthropic","Apple","Atlassian",
      "Brex","Chime","Cisco","Cloudflare","Coinbase","Databricks","Datadog",
      "Discord","DocuSign","DoorDash","Duolingo","Google","Elastic","Figma",
      "Janestreet","Jane Street","LinkedIn","Lyft","Mathworks","MathWorks",
      "Meta","Microsoft","Netflix","Next Insurance","Lemonade","Nextdoor",
      "Notion","Nvidia","Okta","Oracle","OpenAI","Palantir","Pinterest",
      "Plaid","Ramp","Robinhood","Roblox","Scale AI","Scopely","Slack",
      "Splunk","Snowflake","SoFi","Spotify","Square","Stripe","Tesla",
      "Twilio","Uber","Unity","Wayve","Wealthfront","Betterment","Workday",
      "Zendesk">>

KW_HIGH ==
    <<"strategic finance","finance strategy","product finance",
      "business finance","finance business partner","corporate finance",
      "fp&a","planning and analysis","planning & analysis","forecasting",
      "budgeting","variance","kpi","operational finance",
      "commercial finance","gtm finance","go-to-market finance",
      "revenue finance","pricing finance","growth finance",
      "monetization finance","gross margin","unit economics","cac","ltv",
      "cohort","retention","contribution margin","investment bank",
      "accounting","technical accounting","controllership","controller",
      "close","month-end","sox","audit",
      "corporate development","corp dev","m&a","mergers","acquisitions",
      "transaction","transactions","due diligence","valuation","lbo","dcf",
      "investment analysis","deal analysis","investment bank",
      "investment banking","private equity","venture capital",
      "strategic investments","integration","post-merger","pmi","deal",
      "bizops","business operations","strategy & operations",
      "strategy and operations","operating model","business insights",
      "performance analytics","planning analyst","business analytics",
      "analytics strategy","strategic planning","s&o","s&op","sales ops",
      "revenue ops","revops","gtm strategy">>

KW_MED ==
    <<"financial analyst","finance analyst","finance manager",
      "finance associate","strategy analyst","strategy manager",
      "business analyst","operations analyst","revenue analyst",
      "pricing analyst","growth analyst","monetization","pricing",
      "go-to-market","gtm","analytics","sql","etl","dashboard","reporting",
      "modeling","budget","forecast","variance analysis","data analysis",
      "data modeling","metrics","kpi reporting","commercial",
      "market sizing","biz strategy","product strategy","product ops",
      "program finance","workload finance","cloud finance","infra finance",
      "data center finance">>

NEGATIVE ==
    <<"warehouse","area manager","night shift","hourly","driver",
      "fulfillment","store associate","retail","manufacturing","plant",
      "security guard","nurse","cna","pharmacist","call center","armed">>

-----------------------------------------------------------------------------
(* Text primitives *)

Range(s) == {s[i] : i \in DOMAIN s}

\* Python's  k in s  on strings
Contains(k, s) ==
    \E i \in 1..(Len(s) - Len(k) + 1) : SubSeq(s, i, i + Len(k) - 1) = k

CharAt(s, i) == SubSeq(s, i, i)

UpperChars == "ABCDEFGHIJKLMNOPQRSTUVWXYZ"
LowerChars == "abcdefghijklmnopqrstuvwxyz"
DigitChars == "0123456789"

\* str.lower() on one character
LowerChar(c) ==
    IF \E i \in 1..26 : CharAt(UpperChars, i) = c
    THEN CharAt(LowerChars, CHOOSE i \in 1..26 : CharAt(UpperChars, i) = c)
    ELSE c

\* "".join(piece[lo..hi]), by halving
RECURSIVE Join(_, _, _)
Join(piece, lo, hi) ==
    IF lo > hi THEN ""
    ELSE IF lo = hi THEN piece[lo]
    ELSE LET mid == (lo + hi) \div 2
         IN  Join(piece, lo, mid) \o Join(piece, mid + 1, hi)

\* str.lower()
Lower(s) == Join([i \in 1..Len(s) |-> LowerChar(CharAt(s, i))], 1, Len(s))

\* the regular expression class \s
IsSpace(c) == c \in {" ", "\t", "\n", "\r"}

\* the regular expression class \w
IsWordChar(c) ==
    \/ \E i \in 1..26 : c = CharAt(LowerChars, i) \/ c = CharAt(UpperChars, i)
    \/ \E i \in 1..10 : c = CharAt(DigitChars, i)
    \/ c = "_"

\* what character i of s becomes under strip(), lower() and the replacement
\* of every run of whitespace by one space: a whitespace character stays,
\* as a space, when it starts a run that has text on both sides
NormPiece(s, i) ==
    LET c == CharAt(s, i) IN
    IF ~IsSpace(c) THEN LowerChar(c)
    ELSE IF /\ i > 1
            /\ ~IsSpace(CharAt(s, i - 1))
            /\ \E k \in (i + 1)..Len(s) : ~IsSpace(CharAt(s, k))
         THEN " "
         ELSE ""

norm(s) == Join([i \in 1..Len(s) |-> NormPiece(s, i)], 1, Len(s))

\* the regular expression anchor \b at the gap before character i of s
WordBoundary(s, i) ==
    LET before == i > 1 /\ i - 1 <= Len(s) /\ IsWordChar(CharAt(s, i - 1))
        after  == i >= 1 /\ i <= Len(s) /\ IsWordChar(CharAt(s, i))
    IN  before # after

\* re.search(rf"(\b|,|\()({st})(\b|\)|\s)", s)
StateSearch(st, s) ==
    \E i \in 1..(Len(s) - Len(st) + 1) :
        /\ SubSeq(s, i, i + Len(st) - 1) = st
        /\ \/ WordBoundary(s, i)
           \/ i > 1 /\ CharAt(s, i - 1) \in {",", "("}
        /\ LET j == i + Len(st) IN
           \/ WordBoundary(s, j)
           \/ j <= Len(s) /\ (CharAt(s, j) = ")" \/ IsSpace(CharAt(s, j)))

\* any(k in s for k in kws)
AnyIn(kws, s) == \E i \in DOMAIN kws : Contains(kws[i], s)

-----------------------------------------------------------------------------
(* LOCATION FILTERING and scoring *)

REJECT == -999

\* location_priority with the baseline tier for a remote location that has
\* no US indicator
location_priority_remote_baseline(location) ==
    LET loc == norm(location)
        is_ca == AnyIn(CALIFORNIA_KEYWORDS, loc)
        is_us_keyword == AnyIn(US_KEYWORDS, loc)
        state_hit == \E st \in US_STATE_ABBR : StateSearch(st, loc)
        is_us == is_us_keyword \/ state_hit \/ is_ca
    IN  IF loc = "" THEN 8
        ELSE IF ~is_us /\ ~Contains("remote", loc) THEN REJECT
        ELSE IF is_ca THEN 20
        ELSE IF Contains("remote", loc) /\ is_us THEN 12
        ELSE 5

location_priority(location) ==
    LET loc == norm(location)
        is_ca == AnyIn(CALIFORNIA_KEYWORDS, loc)
        is_us_keyword == AnyIn(US_KEYWORDS, loc)
        state_hit == \E st \in US_STATE_ABBR : StateSearch(st, loc)
        is_us == is_us_keyword \/ state_hit \/ is_ca
    IN  IF loc = "" THEN 8
        ELSE IF ~is_us /\ ~Contains("remote", loc) THEN REJECT
        ELSE IF is_ca THEN 20
        ELSE IF Contains("remote", loc) THEN 12
        ELSE 5

\* for kw in kws: if kw in t or kw in d: score += w
\* (w for every position of the list whose keyword occurs)
KeywordScore(kws, w, t, d) ==
    w * Cardinality({i \in DOMAIN kws :
                        Contains(kws[i], t) \/ Contains(kws[i], d)})

StartsWith(s, p) == Len(s) >= Len(p) /\ SubSeq(s, 1, Len(p)) = p

score_job(job) ==
    LET t == norm(job.title)
        d == norm(job.description_snippet)
        c == norm(job.company)
        loc_score == location_priority(job.location)
        boost == IF \E i \in DOMAIN TARGET_COMPANY_NAMES :
                        Contains(norm(TARGET_COMPANY_NAMES[i]), c)
                 THEN 8 ELSE 0
    IN  IF \E i \in DOMAIN NEGATIVE :
              Contains(NEGATIVE[i], t) \/ Contains(NEGATIVE[i], d)
        THEN REJECT
        ELSE IF loc_score < 0 THEN REJECT
        ELSE loc_score + boost
             + KeywordScore(KW_HIGH, 10, t, d)
             + KeywordScore(KW_MED, 5, t, d)
             + (IF Contains("manager", t) THEN 2 ELSE 0)
             + (IF Contains("senior", t) \/ StartsWith(t, "sr") THEN 1 ELSE 0)
             - (IF Contains("intern", t) THEN 2 ELSE 0)

-----------------------------------------------------------------------------
(* DATA MODEL *)

\* Job.uid(): the text that is hashed.  The model takes the 96-bit SHA-256
\* prefix to be injective on it.
uid(job) ==
    job.source \o "|" \o job.company \o "|" \o job.title \o "|" \o job.apply_url

\* posted_at is None or a datetime: wall-clock hours and, when tzinfo is
\* set, the UTC offset in hours.
NoDate == [known |-> FALSE, wall |-> 0, aware |-> FALSE, utcoffset |-> 0]
NaiveDate(wall) ==
    [known |-> TRUE, wall |-> wall, aware |-> FALSE, utcoffset |-> 0]
AwareDate(wall, utcoffset) ==
    [known |-> TRUE, wall |-> wall, aware |-> TRUE, utcoffset |-> utcoffset]

is_recent(job, cutoff) ==
    IF ~job.posted_at.known THEN TRUE
    ELSE LET dt == IF ~job.posted_at.aware
                   THEN job.posted_at.wall
                   ELSE job.posted_at.wall - job.posted_at.utcoffset
         IN  dt >= cutoff

-----------------------------------------------------------------------------
(* The postings of the model *)

MkJob(source, company, title, location, posted_at, apply_url, snippet) ==
    [source |-> source, company |-> company, title |-> title,
     location |-> location, posted_at |-> posted_at, apply_url |-> apply_url,
     description_snippet |-> snippet]

\* What the sources can return, in the order main() concatenates them:
\* Greenhouse, Lever, SmartRecruiters, then the news feed.  Entry 7 is the
\* feed entry of 4 as returned by another query, with a different summary.
Catalog ==
    << MkJob("greenhouse", "Stripe", "Senior Strategic Finance Manager",
             "San Francisco, CA", NaiveDate(99),
             "https://boards.greenhouse.io/stripe/jobs/1",
             "Partner with product teams on forecasting"),
       MkJob("lever", "DoorDash", "Warehouse Associate",
             "Columbus, OH", AwareDate(99, 0),
             "https://jobs.lever.co/doordash/2", "Night shift"),
       MkJob("smartrecruiters", "Atlassian", "Finance Analyst, Pricing",
             "Remote, United States", AwareDate(93, 0 - 8),
             "https://jobs.smartrecruiters.com/Atlassian/3", ""),
       MkJob("google_news_rss", "Nvidia", "Nvidia FP&A Analyst - Remote",
             "Remote", NoDate, "https://news.google.com/rss/articles/4",
             "NVIDIA careers"),
       MkJob("google_news_rss", "Nvidia", "Nvidia Pricing Analyst, Santa Clara",
             "CA", NoDate, "https://news.google.com/rss/articles/5", ""),
       MkJob("google_news_rss", "Nvidia", "Nvidia Corporate Development",
             "Remote, US", NoDate, "https://news.google.com/rss/articles/6",
             "Remote, United States"),
       MkJob("google_news_rss", "Nvidia", "Nvidia FP&A Analyst - Remote",
             "Remote", NoDate, "https://news.google.com/rss/articles/4",
             "NVIDIA careers: budgeting and reporting") >>

\* A posting in all_jobs, items and picked is held as its index in Catalog.
JobIds == DOMAIN Catalog

RECURSIVE UidsFrom(_)
UidsFrom(j) ==
    IF j > Len(Catalog) THEN <<>> ELSE <<uid(Catalog[j])>> \o UidsFrom(j + 1)

RECURSIVE ScoresFrom(_)
ScoresFrom(j) ==
    IF j > Len(Catalog) THEN <<>>
    ELSE <<score_job(Catalog[j])>> \o ScoresFrom(j + 1)

RECURSIVE KeysFrom(_)
KeysFrom(j) ==
    IF j > Len(Catalog) THEN <<>>
    ELSE <<<<Lower(Catalog[j].company), Lower(Catalog[j].title)>>>>
         \o KeysFrom(j + 1)

JobUid == UidsFrom(1)       \* j |-> Catalog[j].uid()
JobScore == ScoresFrom(1)   \* j |-> score_job(Catalog[j])
JobKey == KeysFrom(1)       \* j |-> (company.lower(), title.lower())
Company(j) == Catalog[j].company

-----------------------------------------------------------------------------
(* The seen-store: on disk and in memory *)

\* A value is [kind, entries, text]: kind "dict" with entries a sequence of
\* [uid, ts] in insertion order; "list", "string" and "scalar" (a number,
\* true, false or null) are the other JSON documents; on disk the file may
\* also be "missing" or "unparseable".
NoSeen == [kind |-> "none", entries |-> <<>>, text |-> ""]
DictOf(entries) == [kind |-> "dict", entries |-> entries, text |-> ""]
OtherDoc(kind, text) == [kind |-> kind, entries |-> <<>>, text |-> text]

\* load_seen that never reads the file
load_seen_fresh(f) == DictOf(<<>>)

load_seen(f) ==
    IF f.kind \in {"missing", "unparseable"} THEN DictOf(<<>>) ELSE f

SeenKeys(s) == {s.entries[i].uid : i \in DOMAIN s.entries}

\* uid in seen, where it does not raise
InSeen(u, s) ==
    CASE s.kind = "dict" -> u \in SeenKeys(s)
      [] s.kind = "list" -> u \in SeenKeys(s)
      [] s.kind = "string" -> Contains(u, s.text)
      [] OTHER -> FALSE

\* len(seen), where it does not raise
SeenLen(s) == IF s.kind = "string" THEN Len(s.text) ELSE Len(s.entries)

\* seen[u] = ts on a dict: an existing key keeps its place
SetEntry(entries, u, ts) ==
    IF \E i \in DOMAIN entries : entries[i].uid = u
    THEN [i \in DOMAIN entries |->
            IF entries[i].uid = u THEN [uid |-> u, ts |-> ts] ELSE entries[i]]
    ELSE Append(entries, [uid |-> u, ts |-> ts])

\* for _, job in items: seen[job.uid()] = ts
RECURSIVE MarkAll(_, _, _, _)
MarkAll(entries, its, i, ts) ==
    IF i > Len(its) THEN entries
    ELSE MarkAll(SetEntry(entries, JobUid[its[i][2]], ts), its, i + 1, ts)

\* the sort without reverse=True: oldest first
InsertByTsAscending(e, sorted) ==
    LET k == Cardinality({i \in DOMAIN sorted : sorted[i].ts <= e.ts})
    IN  SubSeq(sorted, 1, k) \o <<e>> \o SubSeq(sorted, k + 1, Len(sorted))

\* sorted(..., key=lambda kv: kv[1], reverse=True): stable, newest first
InsertByTs(e, sorted) ==
    LET k == Cardinality({i \in DOMAIN sorted : sorted[i].ts >= e.ts})
    IN  SubSeq(sorted, 1, k) \o <<e>> \o SubSeq(sorted, k + 1, Len(sorted))

RECURSIVE SortedByTs(_, _)
SortedByTs(entries, n) ==
    IF n = 0 THEN <<>> ELSE InsertByTs(entries[n], SortedByTs(entries, n - 1))

-----------------------------------------------------------------------------
(* Ranking and the company quota filter *)

\* printable ASCII in code order, without the double quote (34), the
\* backslash (92) and the backquote (96)
AsciiLow == " !"
AsciiMid == "#$%&'()*+,-./0123456789:;<=>?@ABCDEFGHIJKLMNOPQRSTUVWXYZ["
AsciiTop == "]^_"
AsciiHigh == "abcdefghijklmnopqrstuvwxyz{|}~"

IndexIn(c, table) == CHOOSE i \in 1..Len(table) : CharAt(table, i) = c

\* ord(c)
Ord(c) ==
    IF Contains(c, AsciiLow) THEN 31 + IndexIn(c, AsciiLow)
    ELSE IF Contains(c, AsciiMid) THEN 34 + IndexIn(c, AsciiMid)
    ELSE IF Contains(c, AsciiTop) THEN 92 + IndexIn(c, AsciiTop)
    ELSE 96 + IndexIn(c, AsciiHigh)

\* a < b on str: decided at the first position where they differ, else by
\* the length
StrLess(a, b) ==
    LET n == IF Len(a) < Len(b) THEN Len(a) ELSE Len(b)
        differ == {i \in 1..n : CharAt(a, i) # CharAt(b, i)}
    IN  IF differ = {} THEN Len(a) < Len(b)
        ELSE LET i == CHOOSE k \in differ : \A m \in differ : k <= m
             IN  Ord(CharAt(a, i)) < Ord(CharAt(b, i))

\* the key without the minus sign
SortKeyAscending(x) == <<x[1], JobKey[x[2]][1], JobKey[x[2]][2]>>

\* key=lambda x: (-x[0], x[1].company.lower(), x[1].title.lower())
SortKey(x) == <<0 - x[1], JobKey[x[2]][1], JobKey[x[2]][2]>>

KeyLess(k1, k2) ==
    \/ k1[1] < k2[1]
    \/ k1[1] = k2[1] /\ StrLess(k1[2], k2[2])
    \/ k1[1] = k2[1] /\ k1[2] = k2[2] /\ StrLess(k1[3], k2[3])

\* list.sort is stable: x goes behind everything that is not greater
InsertByKey(x, sorted) ==
    LET k == Cardinality({i \in DOMAIN sorted :
                              ~KeyLess(SortKey(x), SortKey(sorted[i]))})
    IN  SubSeq(sorted, 1, k) \o <<x>> \o SubSeq(sorted, k + 1, Len(sorted))

RECURSIVE SortedItems(_, _)
SortedItems(its, n) ==
    IF n = 0 THEN <<>> ELSE InsertByKey(its[n], SortedItems(its, n - 1))

CapOf(company) ==
    IF company \in DOMAIN COMPANY_CAPS THEN COMPANY_CAPS[company]
    ELSE MAX_PER_COMPANY_DEFAULT

CountOf(counts, company) ==
    IF company \in DOMAIN counts THEN counts[company] ELSE 0

\* QuotaLoop that skips a company only above its cap
RECURSIVE QuotaLoopAboveCap(_, _, _, _)
QuotaLoopAboveCap(its, i, acc, counts) ==
    IF i > Len(its) THEN [picked |-> acc, counts |-> counts]
    ELSE LET company == Company(its[i][2]) IN
         IF CountOf(counts, company) > CapOf(company)
         THEN QuotaLoopAboveCap(its, i + 1, acc, counts)
         ELSE LET acc2 == Append(acc, its[i])
                  counts2 == [c \in DOMAIN counts \cup {company} |->
                                 IF c = company
                                 THEN CountOf(counts, company) + 1
                                 ELSE counts[c]]
              IN  IF Len(acc2) >= MAX_EMAIL_ITEMS
                  THEN [picked |-> acc2, counts |-> counts2]
                  ELSE QuotaLoopAboveCap(its, i + 1, acc2, counts2)

\* QuotaLoop that stops only above the global maximum
RECURSIVE QuotaLoopLateBreak(_, _, _, _)
QuotaLoopLateBreak(its, i, acc, counts) ==
    IF i > Len(its) THEN [picked |-> acc, counts |-> counts]
    ELSE LET company == Company(its[i][2]) IN
         IF CountOf(counts, company) >= CapOf(company)
         THEN QuotaLoopLateBreak(its, i + 1, acc, counts)
         ELSE LET acc2 == Append(acc, its[i])
                  counts2 == [c \in DOMAIN counts \cup {company} |->
                                 IF c = company
                                 THEN CountOf(counts, company) + 1
                                 ELSE counts[c]]
              IN  IF Len(acc2) > MAX_EMAIL_ITEMS
                  THEN [picked |-> acc2, counts |-> counts2]
                  ELSE QuotaLoopLateBreak(its, i + 1, acc2, counts2)

\* the loop  for sc, job in items  of the company quota filter
RECURSIVE QuotaLoop(_, _, _, _)
QuotaLoop(its, i, acc, counts) ==
    IF i > Len(its) THEN [picked |-> acc, counts |-> counts]
    ELSE LET company == Company(its[i][2]) IN
         IF CountOf(counts, company) >= CapOf(company)
         THEN QuotaLoop(its, i + 1, acc, counts)
         ELSE LET acc2 == Append(acc, its[i])
                  counts2 == [c \in DOMAIN counts \cup {company} |->
                                 IF c = company
                                 THEN CountOf(counts, company) + 1
                                 ELSE counts[c]]
              IN  IF Len(acc2) >= MAX_EMAIL_ITEMS
                  THEN [picked |-> acc2, counts |-> counts2]
                  ELSE QuotaLoop(its, i + 1, acc2, counts2)

EmptyCounts == [c \in {} |-> 0]

\* FilterLoop without the test  uid in seen
RECURSIVE FilterLoopNoSeen(_, _, _, _)
FilterLoopNoSeen(jobs, i, s, cutoff) ==
    IF i > Len(jobs) THEN <<>>
    ELSE LET job == jobs[i]
             rest == FilterLoopNoSeen(jobs, i + 1, s, cutoff)
         IN  IF ~is_recent(Catalog[job], cutoff) THEN rest
             ELSE IF JobScore[job] < 0 THEN rest
             ELSE <<<<JobScore[job], job>>>> \o rest

\* the loop  for job in all_jobs  that builds items
RECURSIVE FilterLoop(_, _, _, _)
FilterLoop(jobs, i, s, cutoff) ==
    IF i > Len(jobs) THEN <<>>
    ELSE LET job == jobs[i]
             rest == FilterLoop(jobs, i + 1, s, cutoff)
         IN  IF InSeen(JobUid[job], s) THEN rest
             ELSE IF ~is_recent(Catalog[job], cutoff) THEN rest
             ELSE IF JobScore[job] < 0 THEN rest
             ELSE <<<<JobScore[job], job>>>> \o rest

-----------------------------------------------------------------------------
(* Bounds and inputs *)

MaxRuns == 3     \* runs of main() explored
MaxFetch == 4    \* postings the sources return in one run

Clock0 == 96     \* hour of the clock before the first run
RunInterval == 4 \* hours between two runs

RECURSIVE PickFrom(_, _)
PickFrom(S, i) ==
    IF i > Len(Catalog) THEN <<>>
    ELSE (IF i \in S THEN <<i>> ELSE <<>>) \o PickFrom(S, i + 1)

Fetches ==
    {PickFrom(S, 1) : S \in {T \in SUBSET JobIds :
                                  Cardinality(T) <= MaxFetch}}

Missing == [kind |-> "missing", entries |-> <<>>, text |-> ""]
Unparseable == [kind |-> "unparseable", entries |-> <<>>, text |-> ""]

\* contents of STATE_PATH before the first run
InitFiles ==
    {Missing, Unparseable, DictOf(<<>>), OtherDoc("list", ""),
     OtherDoc("string", "oops"), OtherDoc("scalar", "")}

-----------------------------------------------------------------------------
(* main() *)

\* the history of the first run, before there is one
NoFirst ==
    [set |-> FALSE, fetch |-> <<>>, ranked |-> <<>>, picked |-> <<>>,
     saved |-> FALSE]

Init ==
    /\ file \in InitFiles
    /\ seen = NoSeen
    /\ all_jobs = <<>>
    /\ items = <<>>
    /\ picked = <<>>
    /\ company_counts = EmptyCounts
    /\ dropped = <<>>
    /\ now = Clock0
    /\ run = 0
    /\ pc = "idle"
    /\ notified = {}
    /\ first = NoFirst
    /\ fn_in = ""
    /\ fn_out = 0

cutoff == now - LOOKBACK_HOURS

\* the process ends: its locals are gone
Exit(state) ==
    /\ pc' = state
    /\ seen' = NoSeen
    /\ all_jobs' = <<>>
    /\ items' = <<>>
    /\ picked' = <<>>
    /\ company_counts' = EmptyCounts
    /\ dropped' = <<>>
    /\ first' = IF run >= 2 THEN NoFirst ELSE first

\* an unhandled exception ends the run
Crash ==
    /\ Exit("crashed")
    /\ UNCHANGED <<file, now, run, notified, fn_in, fn_out>>

\* the scheduler starts main(): now, cutoff
StartRun ==
    /\ pc \in {"idle", "done", "crashed"}
    /\ run < MaxRuns
    /\ run' = run + 1
    /\ now' = now + RunInterval
    /\ pc' = "started"
    /\ UNCHANGED <<file, seen, all_jobs, items, picked, company_counts,
                   dropped, notified, first, fn_in, fn_out>>

\* seen = load_seen()
LoadSeen ==
    /\ pc = "started"
    /\ seen' = load_seen(file)
    /\ pc' = "loaded"
    /\ UNCHANGED <<file, all_jobs, items, picked, company_counts, dropped,
                   now, run, notified, first, fn_in, fn_out>>

\* all_jobs += fetch_...()
Fetch ==
    /\ pc = "loaded"
    /\ \E jobs \in Fetches : all_jobs' = jobs
    /\ pc' = "fetched"
    /\ UNCHANGED <<file, seen, items, picked, company_counts, dropped,
                   now, run, notified, first, fn_in, fn_out>>

\* the loop that builds items;  uid in seen  raises on a number or null
Filter ==
    /\ pc = "fetched"
    /\ IF seen.kind = "scalar" /\ all_jobs # <<>>
       THEN Crash
       ELSE /\ items' = FilterLoop(all_jobs, 1, seen, cutoff)
            /\ pc' = "filtered"
            /\ UNCHANGED <<file, seen, all_jobs, picked, company_counts,
                           dropped, now, run, notified, first, fn_in, fn_out>>

\* items.sort(...)
Rank ==
    /\ pc = "filtered"
    /\ items' = SortedItems(items, Len(items))
    /\ pc' = "ranked"
    /\ UNCHANGED <<file, seen, all_jobs, picked, company_counts, dropped,
                   now, run, notified, first, fn_in, fn_out>>

\* company quota filter
FloodControl ==
    /\ pc = "ranked"
    /\ LET r == QuotaLoop(items, 1, <<>>, EmptyCounts) IN
         /\ picked' = r.picked
         /\ company_counts' = r.counts
         /\ first' = IF run = 1
                     THEN [set |-> TRUE, fetch |-> all_jobs, ranked |-> items,
                           picked |-> r.picked, saved |-> FALSE]
                     ELSE first
    /\ pc' = "capped"
    /\ UNCHANGED <<file, seen, all_jobs, items, dropped, now, run, notified,
                   fn_in, fn_out>>

\* items = picked; ts = time.time(); seen[job.uid()] = ts raises on a list
\* or a string
MarkSeen ==
    /\ pc = "capped"
    /\ IF picked # <<>> /\ seen.kind # "dict"
       THEN Crash
       ELSE /\ items' = picked
            /\ seen' = IF picked = <<>> THEN seen
                       ELSE DictOf(MarkAll(seen.entries, picked, 1, now))
            /\ pc' = "marked"
            /\ UNCHANGED <<file, all_jobs, picked, company_counts, dropped,
                           now, run, notified, first, fn_in, fn_out>>

\* if len(seen) > 25000: keep the 25000 newest; len raises on a number or
\* null, .items() on a list or a string
Prune ==
    /\ pc = "marked"
    /\ IF seen.kind = "scalar" THEN Crash
       ELSE IF SeenLen(seen) > SEEN_MAX
       THEN IF seen.kind # "dict" THEN Crash
            ELSE LET sorted == SortedByTs(seen.entries, Len(seen.entries)) IN
                 /\ seen' = DictOf(SubSeq(sorted, 1, SEEN_MAX))
                 /\ dropped' = SubSeq(sorted, SEEN_MAX + 1, Len(sorted))
                 /\ pc' = "pruned"
                 /\ UNCHANGED <<file, all_jobs, items, picked, company_counts,
                                now, run, notified, first, fn_in, fn_out>>
       ELSE /\ pc' = "pruned"
            /\ UNCHANGED <<file, seen, all_jobs, items, picked,
                           company_counts, dropped, now, run, notified, first,
                           fn_in, fn_out>>

\* save_seen(seen)
SaveSeen ==
    /\ pc = "pruned"
    /\ file' = seen
    /\ notified' = notified \cup {JobUid[items[i][2]] : i \in DOMAIN items}
    /\ first' = IF run = 1 THEN [first EXCEPT !.saved = TRUE] ELSE first
    /\ pc' = "saved"
    /\ UNCHANGED <<seen, all_jobs, items, picked, company_counts, dropped,
                   now, run, fn_in, fn_out>>

\* the digest is built from items and handed to send_email
Render ==
    /\ pc = "saved"
    /\ Exit("done")
    /\ UNCHANGED <<file, now, run, notified, fn_in, fn_out>>

Next ==
    \/ StartRun
    \/ LoadSeen
    \/ Fetch
    \/ Filter
    \/ Rank
    \/ FloodControl
    \/ MarkSeen
    \/ Prune
    \/ SaveSeen
    \/ Render

Spec == Init /\ [][Next]_vars

-----------------------------------------------------------------------------
(* Properties of main() *)

PickedUids == {JobUid[picked[i][2]] : i \in DOMAIN picked}

\* the postings of all_jobs that pass the recency and the score filter
Qualifying == {j \in Range(all_jobs) :
                  is_recent(Catalog[j], cutoff) /\ JobScore[j] >= 0}

\* C1 as claimed: a fingerprint that an earlier run selected and saved is
\* never selected again by a later run, pruning included.
C1_NeverSelectedAgain ==
    pc = "capped" => PickedUids \cap notified = {}

\* C1 as amended: a fingerprint that an earlier run selected and saved is
\* not selected by a later run for as long as it is in the persisted
\* seen-store.
C1_NotSelectedWhileStored ==
    pc = "capped" => PickedUids \cap notified \cap SeenKeys(file) = {}

\* C1 witness: a run was offered a qualifying posting that an earlier run
\* had selected and that is still stored, and selected other postings.
C1_Witness ==
    /\ pc = "capped"
    /\ picked # <<>>
    /\ \E j \in Qualifying : JobUid[j] \in notified \cap SeenKeys(file)

FirstRunRepeated ==
    /\ pc = "capped"
    /\ run = 2
    /\ first.set
    /\ first.saved
    /\ all_jobs = first.fetch

FirstPickedUids == {JobUid[first.picked[i][2]] : i \in DOMAIN first.picked}

\* C2 as claimed: when the second run gets the postings of the first run,
\* its notified list is empty.
C2_RerunEmpty == FirstRunRepeated => picked = <<>>

\* C2 as amended: when the second run gets the postings of the first run,
\* its notified list holds no posting whose fingerprint the first run
\* selected and saved in the seen-store.
C2_RerunSelectsNothingStored ==
    FirstRunRepeated =>
        /\ PickedUids \cap FirstPickedUids = {}
        /\ PickedUids \cap SeenKeys(file) = {}

\* C2 witness: the second run repeats the fetch of a first run that selected
\* something.
C2_Witness == FirstRunRepeated /\ first.picked # <<>>

CountFor(seq, company) ==
    Cardinality({i \in DOMAIN seq : Company(seq[i][2]) = company})

Companies == {Company(j) : j \in JobIds}

\* C3: the selected list holds at most cap(C) postings of every company C.
C3_CompanyCap ==
    pc \in {"capped", "marked", "pruned", "saved"} =>
        \A c \in Companies :
            CountFor(picked, c) <=
                (IF c \in DOMAIN COMPANY_CAPS THEN COMPANY_CAPS[c]
                 ELSE MAX_PER_COMPANY_DEFAULT)

\* C3 witness: more postings of a company qualified than its cap allows and
\* exactly the cap was selected.
C3_Witness ==
    /\ pc = "capped"
    /\ \E c \in Companies :
          /\ CountFor(items, c) > CapOf(c)
          /\ CountFor(picked, c) = CapOf(c)

\* C4: the selected list holds at most MAX_EMAIL_ITEMS postings.
C4_GlobalCap ==
    pc \in {"capped", "marked", "pruned", "saved"} =>
        Len(picked) <= MAX_EMAIL_ITEMS

\* C4 witness: the list is full and a ranked posting that its company cap
\* would have let through was left out.
C4_Witness ==
    /\ pc = "capped"
    /\ Len(picked) = MAX_EMAIL_ITEMS
    /\ \E i \in DOMAIN items :
          /\ items[i] \notin Range(picked)
          /\ CountFor(picked, Company(items[i][2])) < CapOf(Company(items[i][2]))

\* x may stand before y in the ranking: higher score, or equal score and
\* company.lower() not greater, or both equal and title.lower() not greater
MayPrecede(x, y) ==
    LET cx == Lower(Catalog[x[2]].company)
        cy == Lower(Catalog[y[2]].company)
        tx == Lower(Catalog[x[2]].title)
        ty == Lower(Catalog[y[2]].title)
    IN  \/ x[1] > y[1]
        \/ x[1] = y[1] /\ StrLess(cx, cy)
        \/ x[1] = y[1] /\ cx = cy /\ ~StrLess(ty, tx)

IsRanked(seq) ==
    \A i \in DOMAIN seq : \A k \in DOMAIN seq :
        i < k => MayPrecede(seq[i], seq[k])

IsSubsequence(sub, seq) ==
    \E f \in [DOMAIN sub -> DOMAIN seq] :
        /\ \A i \in DOMAIN sub : sub[i] = seq[f[i]]
        /\ \A i \in DOMAIN sub : \A k \in DOMAIN sub : i < k => f[i] < f[k]

\* C5: the ranked sequence is sorted by descending score, then company and
\* title, case-insensitively ascending, and the selected list is a
\* subsequence of it.
C5_Ordering ==
    /\ pc \in {"ranked", "capped"} => IsRanked(items)
    /\ pc = "capped" => IsSubsequence(picked, items)
    /\ pc \in {"marked", "pruned", "saved"} => IsRanked(items)

\* C5 witness: the ranking had to break a tie on the score by company and
\* one by title, and the selected list is a proper part of it.
C5_Witness ==
    /\ pc = "capped"
    /\ picked # <<>>
    /\ Len(picked) < Len(items)
    /\ \E i \in DOMAIN items : \E k \in DOMAIN items :
          /\ i < k
          /\ items[i][1] = items[k][1]
          /\ Company(items[i][2]) # Company(items[k][2])
    /\ \E i \in DOMAIN items : \E k \in DOMAIN items :
          /\ i < k
          /\ items[i][1] = items[k][1]
          /\ Company(items[i][2]) = Company(items[k][2])
          /\ items[i][2] > items[k][2]

\* C6: after the prune step the store has at most SEEN_MAX entries, every
\* retained entry is at least as recent as every dropped one, and nothing
\* is dropped from a store that does not exceed SEEN_MAX.
C6_Pruning ==
    pc = "pruned" =>
        /\ SeenLen(seen) <= SEEN_MAX
        /\ \A k \in DOMAIN seen.entries : \A d \in DOMAIN dropped :
              seen.entries[k].ts >= dropped[d].ts
        /\ dropped # <<>> => Len(seen.entries) = SEEN_MAX

\* C6 witness: the prune step dropped an entry older than a retained one.
C6_Witness ==
    /\ pc = "pruned"
    /\ dropped # <<>>
    /\ \E k \in DOMAIN seen.entries : seen.entries[k].ts > dropped[1].ts

\* C7 as claimed: whatever the state file holds, no run of main() ends in
\* an unhandled error.
C7_NeverCrashes == pc # "crashed"

\* the ranked postings of the first run that it did not select: skipped at
\* a company cap or left behind the global maximum
FirstSkipped ==
    {first.ranked[i] : i \in DOMAIN first.ranked} \ Range(first.picked)

\* C11 as claimed: marking changes the store only at the fingerprints of
\* the selected postings, which get the timestamp of the run; a posting of
\* the first run that was ranked but not selected is not in the store after
\* the marking, and when the second run fetches it again, still recent, it
\* passes the filter.
C11_OnlySelectedMarked ==
    /\ (pc = "marked" /\ seen.kind = "dict") =>
          LET before == load_seen(file).entries IN
          /\ \A k \in DOMAIN seen.entries :
                IF seen.entries[k].uid \in PickedUids
                THEN seen.entries[k].ts = now
                ELSE seen.entries[k] \in Range(before)
          /\ \A k \in DOMAIN before :
                before[k].uid \notin PickedUids =>
                    before[k] \in Range(seen.entries)
    /\ (pc = "marked" /\ run = 1) =>
          \A x \in FirstSkipped : JobUid[x[2]] \notin SeenKeys(seen)
    /\ (pc = "filtered" /\ run = 2 /\ first.saved) =>
          \A x \in FirstSkipped :
              (x[2] \in Range(all_jobs) /\ is_recent(Catalog[x[2]], cutoff))
                  => x \in Range(items)

\* C12 as claimed: the selected list of a run holds at most one posting per
\* fingerprint, also when several fetched postings share a fingerprint.
C12_OnePerFingerprint ==
    pc \in {"capped", "marked", "pruned", "saved"} =>
        \A i \in DOMAIN picked : \A k \in DOMAIN picked :
            i # k => uid(Catalog[picked[i][2]]) # uid(Catalog[picked[k][2]])

-----------------------------------------------------------------------------
(* Direct calls of location_priority and score_job *)

\* no run of main(): only fn_in, fn_out and pc change
NoRun ==
    /\ file = Missing
    /\ seen = NoSeen
    /\ all_jobs = <<>>
    /\ items = <<>>
    /\ picked = <<>>
    /\ company_counts = EmptyCounts
    /\ dropped = <<>>
    /\ now = Clock0
    /\ run = 0
    /\ notified = {}
    /\ first = NoFirst

LocationWords ==
    {"Remote", "Toronto", "Canada", "Austin", "TX", "USA", "CA", "Ireland",
     "Berlin", "San Jose", "United States", "Chicago"}

LocationInputs ==
    {"", " \t "} \cup LocationWords
    \cup {a \o ", " \o b : a \in LocationWords, b \in LocationWords}

InitLocation ==
    /\ NoRun
    /\ pc = "loc_call"
    /\ fn_in \in LocationInputs
    /\ fn_out = 0

CallLocationPriority ==
    /\ pc = "loc_call"
    /\ fn_out' = location_priority(fn_in)
    /\ pc' = "loc_ret"
    /\ UNCHANGED <<file, seen, all_jobs, items, picked, company_counts,
                   dropped, now, run, notified, first, fn_in>>

NextLocation == CallLocationPriority

SpecLocation == InitLocation /\ [][NextLocation]_vars

ScoreTitles ==
    {"Investment Banking Analyst", "Investment Bank Associate",
     "Senior FP&A Manager", "Pricing Analyst Intern", "Sr Accountant",
     "Warehouse Associate", "M&A Deal Lead", "Software Engineer"}

ScoreSnippets ==
    {"", "Join our investment bank.  Investment bank experience a plus.",
     "Budget and forecast reporting"}

ScoreInputs ==
    {MkJob("lever", company, title, location, NoDate,
           "https://jobs.lever.co/x/1", snippet) :
        company \in {"Stripe", "Acme Corp"}, title \in ScoreTitles,
        location \in {"", "New York, NY", "Berlin, Germany"},
        snippet \in ScoreSnippets}

InitScore ==
    /\ NoRun
    /\ pc = "score_call"
    /\ fn_in \in ScoreInputs
    /\ fn_out = 0

CallScoreJob ==
    /\ pc = "score_call"
    /\ fn_out' = score_job(fn_in)
    /\ pc' = "score_ret"
    /\ UNCHANGED <<file, seen, all_jobs, items, picked, company_counts,
                   dropped, now, run, notified, first, fn_in>>

NextScore == CallScoreJob

SpecScore == InitScore /\ [][NextScore]_vars

-----------------------------------------------------------------------------
(* Properties of score_job and location_priority *)

\* the keywords of a list that occur in the title or the snippet
Occurring(kws, job) ==
    {kw \in Range(kws) : \/ Contains(kw, norm(job.title))
                         \/ Contains(kw, norm(job.description_snippet))}

\* what score_job adds apart from the keyword weights
OtherScore(job) ==
    LET t == norm(job.title) IN
    location_priority(job.location)
    + (IF \E name \in Range(TARGET_COMPANY_NAMES) :
             Contains(norm(name), norm(job.company))
       THEN 8 ELSE 0)
    + (IF Contains("manager", t) THEN 2 ELSE 0)
    + (IF Contains("senior", t) \/ StartsWith(t, "sr") THEN 1 ELSE 0)
    - (IF Contains("intern", t) THEN 2 ELSE 0)

\* C8 as claimed: every distinct high-tier keyword that occurs adds 10 once
\* and every distinct medium-tier keyword that occurs adds 5 once, duplicate
\* list entries included.
C8_NoDoubleCount ==
    (pc = "score_ret" /\ fn_out # REJECT) =>
        fn_out = OtherScore(fn_in)
                 + 10 * Cardinality(Occurring(KW_HIGH, fn_in))
                 + 5 * Cardinality(Occurring(KW_MED, fn_in))

\* k occurs in s as a whole word
WholeWord(k, s) ==
    \E i \in 1..(Len(s) - Len(k) + 1) :
        /\ SubSeq(s, i, i + Len(k) - 1) = k
        /\ WordBoundary(s, i)
        /\ WordBoundary(s, i + Len(k))

CaliforniaWord(loc) ==
    \E k \in Range(CALIFORNIA_KEYWORDS) : WholeWord(k, loc)

CaliforniaSubstring(loc) == AnyIn(CALIFORNIA_KEYWORDS, loc)

UsIndicator(loc) ==
    \/ AnyIn(US_KEYWORDS, loc)
    \/ \E st \in US_STATE_ABBR : StateSearch(st, loc)

RemoteIndicator(loc) == Contains("remote", loc)

\* C9 as claimed: a non-empty location with no California keyword as a whole
\* word, no US indicator and no remote indicator is rejected, also when "ca"
\* or another state code is embedded in a longer word.
C9_WordBoundaryAware ==
    LET loc == norm(fn_in) IN
    (/\ pc = "loc_ret"
     /\ loc # ""
     /\ ~CaliforniaWord(loc)
     /\ ~UsIndicator(loc)
     /\ ~RemoteIndicator(loc)) => fn_out = REJECT

TierRemote == 12
TierUsOther == 5

\* C10 as claimed: without a California keyword, remote with a US indicator
\* gets the medium-high tier and remote alone the baseline tier of a
\* US-other location.
C10_RemoteAloneBaseline ==
    LET loc == norm(fn_in) IN
    (/\ pc = "loc_ret"
     /\ loc # ""
     /\ ~CaliforniaSubstring(loc)
     /\ RemoteIndicator(loc)) =>
        fn_out = (IF UsIndicator(loc) THEN TierRemote ELSE TierUsOther)

\* C10 as amended: without a California keyword, a location with a remote
\* indicator gets the medium-high tier with or without a US indicator,
\* above the baseline tier of a US-other location; neither is rejected.
C10_RemoteTier ==
    LET loc == norm(fn_in) IN
    (/\ pc = "loc_ret"
     /\ loc # ""
     /\ ~CaliforniaSubstring(loc)) =>
        /\ RemoteIndicator(loc) => fn_out = TierRemote
        /\ (UsIndicator(loc) /\ ~RemoteIndicator(loc)) => fn_out = TierUsOther
        /\ TierUsOther < TierRemote

\* C10 witness: a remote location without US indicator or California
\* keyword was classified in the medium-high tier.
C10_Witness ==
    LET loc == norm(fn_in) IN
    /\ pc = "loc_ret"
    /\ loc # ""
    /\ ~CaliforniaSubstring(loc)
    /\ RemoteIndicator(loc)
    /\ ~UsIndicator(loc)
    /\ fn_out = TierRemote

=============================================================================
